---- MODULE Spec2Model ----
(***************************************************************************)
(* bren: a batch file/directory rename engine (src/bren.py).               *)
(*                                                                         *)
(* Names, paths, templates and ledger lines are character strings, handled *)
(* with Len, SubSeq and \o.  The filesystem is a function from path        *)
(* strings to entries.  One action per step of main, batch_rename,         *)
(* process_archive and rollback.                                           *)
(***************************************************************************)
EXTENDS Integers, Sequences, FiniteSets, TLC

(***************************************************************************)
(* Strings                                                                 *)
(***************************************************************************)

\* s[i:] and s[:i] of Python, with 1-based positions
From(s, i) == SubSeq(s, i, Len(s))
Upto(s, i) == SubSeq(s, 1, i)
CharAt(s, i) == SubSeq(s, i, i)

StartsWith(s, t) == Len(t) <= Len(s) /\ SubSeq(s, 1, Len(t)) = t
EndsWith(s, t) == Len(t) <= Len(s) /\ SubSeq(s, Len(s) - Len(t) + 1, Len(s)) = t

RECURSIVE FindFrom(_, _, _)
\* str.find: the least position >= i where t occurs in s, 0 when there is none
FindFrom(s, t, i) ==
    IF i + Len(t) - 1 > Len(s) THEN 0
    ELSE IF SubSeq(s, i, i + Len(t) - 1) = t THEN i
    ELSE FindFrom(s, t, i + 1)

Contains(s, t) == FindFrom(s, t, 1) # 0

RECURSIVE RFind(_, _, _)
\* str.rfind of one character, searching down from position i
RFind(s, c, i) ==
    IF i < 1 THEN 0
    ELSE IF CharAt(s, i) = c THEN i
    ELSE RFind(s, c, i - 1)

RECURSIVE CountOf(_, _)
\* str.count: non-overlapping occurrences of a non-empty t in s
CountOf(s, t) ==
    LET k == FindFrom(s, t, 1)
    IN  IF k = 0 THEN 0 ELSE 1 + CountOf(From(s, k + Len(t)), t)

RECURSIVE Repeat(_, _)
Repeat(t, n) == IF n <= 0 THEN "" ELSE t \o Repeat(t, n - 1)

RECURSIVE Interleave(_, _)
\* str.replace with an empty old: new before every character and at the end
Interleave(s, new) ==
    IF s = "" THEN new
    ELSE new \o CharAt(s, 1) \o Interleave(From(s, 2), new)

RECURSIVE ReplaceFrom(_, _, _)
\* str.replace with a non-empty old: left to right, non-overlapping
ReplaceFrom(s, old, new) ==
    LET k == FindFrom(s, old, 1)
    IN  IF k = 0 THEN s
        ELSE Upto(s, k - 1) \o new \o ReplaceFrom(From(s, k + Len(old)), old, new)

\* str.replace(old, new)
StrReplace(s, old, new) ==
    IF old = "" THEN Interleave(s, new) ELSE ReplaceFrom(s, old, new)

Digits == <<"0", "1", "2", "3", "4", "5", "6", "7", "8", "9">>

RECURSIVE NatStr(_)
NatStr(n) == IF n < 10 THEN Digits[n + 1] ELSE NatStr(n \div 10) \o Digits[(n % 10) + 1]

\* str(n) of an int
IntStr(n) == IF n < 0 THEN "-" \o NatStr(0 - n) ELSE NatStr(n)

\* str.zfill(width): zeros after a leading sign
ZFill(t, width) ==
    IF Len(t) >= width THEN t
    ELSE IF StartsWith(t, "-") \/ StartsWith(t, "+")
         THEN CharAt(t, 1) \o Repeat("0", width - Len(t)) \o From(t, 2)
         ELSE Repeat("0", width - Len(t)) \o t

IsDigit(c) == \E i \in 1..10 : Digits[i] = c

\* str.strip() over the whitespace the model's strings can hold
Whitespace == {" ", "\n"}

RECURSIVE LStrip(_)
LStrip(s) == IF s # "" /\ CharAt(s, 1) \in Whitespace THEN LStrip(From(s, 2)) ELSE s

RECURSIVE RStrip(_)
RStrip(s) ==
    IF s # "" /\ CharAt(s, Len(s)) \in Whitespace THEN RStrip(Upto(s, Len(s) - 1)) ELSE s

Strip(s) == LStrip(RStrip(s))

RECURSIVE Split(_, _)
\* str.split(sep) with a one-character sep
Split(s, sep) ==
    LET k == FindFrom(s, sep, 1)
    IN  IF k = 0 THEN <<s>> ELSE <<Upto(s, k - 1)>> \o Split(From(s, k + 1), sep)

(***************************************************************************)
(* os.path                                                                 *)
(***************************************************************************)

\* os.path.join(a, b) on POSIX
PathJoin(a, b) ==
    IF StartsWith(b, "/") THEN b
    ELSE IF a = "" \/ EndsWith(a, "/") THEN a \o b
    ELSE a \o "/" \o b

\* os.path.basename / os.path.dirname
Basename(p) == From(p, RFind(p, "/", Len(p)) + 1)
Dirname(p) ==
    LET k == RFind(p, "/", Len(p))
    IN  IF k = 0 THEN "" ELSE IF k = 1 THEN "/" ELSE Upto(p, k - 1)

RECURSIVE FirstNonDot(_, _, _)
\* genericpath._splitext: a position in i..dot-1 holding something other than "."
FirstNonDot(p, i, dot) ==
    IF i >= dot THEN 0
    ELSE IF CharAt(p, i) # "." THEN i
    ELSE FirstNonDot(p, i + 1, dot)

\* os.path.splitext: <<root, ext>>; leading dots of the last component start no extension
SplitExt(p) ==
    LET sep == RFind(p, "/", Len(p))
        dot == RFind(p, ".", Len(p))
    IN  IF dot > sep /\ FirstNonDot(p, sep + 1, dot) # 0
        THEN <<Upto(p, dot - 1), From(p, dot)>>
        ELSE <<p, "">>

(***************************************************************************)
(* The filesystem: a function from path strings to entries.  An entry is   *)
(* [kind, data, mode, owned, hidden]: kind "file" or "dir"; data names the *)
(* content; mode is the set of permission bits that are on (bit 0 = 0o001, *)
(* bit 11 = 0o4000); owned says whether the invoking user owns the entry.  *)
(* POSIX semantics (os.name = "posix").                                    *)
(***************************************************************************)

OsName == "posix"

AllBits == 0..11
Bits444 == {2, 5, 8}
Bits222 == {1, 4, 7}
Bits111 == {0, 3, 6}

Exists(fs, p) == p \in DOMAIN fs
IsFile(fs, p) == Exists(fs, p) /\ fs[p].kind = "file"
IsDir(fs, p) == Exists(fs, p) /\ fs[p].kind = "dir"

\* the paths strictly below directory p, and its direct children
Below(fs, p) == {q \in DOMAIN fs : StartsWith(q, p \o "/")}
Children(fs, p) == {q \in DOMAIN fs : q # p /\ Dirname(q) = p}

\* a path without its trailing slash
NoSlash(p) == IF Len(p) > 1 /\ EndsWith(p, "/") THEN Upto(p, Len(p) - 1) ELSE p

\* rename(2): why it fails, "" when it succeeds
RenameErrno(fs, src, dst) ==
    LET d == NoSlash(dst)
    IN  IF ~Exists(fs, src) \/ dst = "" THEN "ENOENT"
        ELSE IF ~IsDir(fs, Dirname(d)) THEN "ENOENT"
        ELSE IF fs[src].kind = "file" /\ EndsWith(dst, "/") THEN "ENOTDIR"
        ELSE IF d = src THEN ""
        ELSE IF fs[src].kind = "dir" /\ StartsWith(d, src \o "/") THEN "EINVAL"
        ELSE IF ~Exists(fs, d) THEN ""
        ELSE IF fs[src].kind = "file" /\ fs[d].kind = "dir" THEN "EISDIR"
        ELSE IF fs[src].kind = "dir" /\ fs[d].kind = "file" THEN "ENOTDIR"
        ELSE IF fs[src].kind = "dir" /\ Below(fs, d) # {} THEN "ENOTEMPTY"
        ELSE ""

\* the filesystem after a successful rename(2): src and all below it move to dst,
\* replacing what dst held
Renamed(fs, src, dst) ==
    LET d == NoSlash(dst)
        moved == {src} \cup Below(fs, src)
        kept == (DOMAIN fs \ moved) \ ({d} \cup Below(fs, d))
        target(q) == d \o From(q, Len(src) + 1)
    IN  IF d = src THEN fs
        ELSE [q \in kept \cup {target(m) : m \in moved} |->
                IF q \in kept THEN fs[q]
                ELSE fs[CHOOSE m \in moved : target(m) = q]]

\* os.rename(src, dst): [ok, fs]; ok = FALSE stands for the OSError raised
OsRename(fs, src, dst) ==
    IF RenameErrno(fs, src, dst) = ""
    THEN [ok |-> TRUE, fs |-> Renamed(fs, src, dst)]
    ELSE [ok |-> FALSE, fs |-> fs]

\* os.chmod(path, mode): only the owner may; the kernel keeps bits 0..11
OsChmod(fs, p, mode) ==
    IF Exists(fs, p) /\ fs[p].owned
    THEN [ok |-> TRUE, fs |-> [fs EXCEPT ![p].mode = mode \cap AllBits]]
    ELSE [ok |-> FALSE, fs |-> fs]

(***************************************************************************)
(* Matcher (get_matching_files, match_file, exclude_match)                 *)
(***************************************************************************)

\* The regular expressions of the model are literal ones: a pattern holding none of
\* these characters matches itself.  "(" alone does not compile (re.error).
RegexMeta == {".", "^", "$", "*", "+", "?", "{", "}", "[", "]", "|", "(", ")"}
RegexLiteral(p) == \A i \in 1..Len(p) : CharAt(p, i) \notin RegexMeta
RegexCompiles(p) == p # "("

\* match_file(filename, match_type, pattern); re.match anchors at the start
match_file(filename, match_type, pattern) ==
    CASE match_type = "prefix" -> StartsWith(filename, pattern)
      [] match_type = "suffix" -> EndsWith(filename, pattern)
      [] match_type = "contain" -> Contains(filename, pattern)
      [] match_type = "regex" -> StartsWith(filename, pattern)
      [] OTHER -> FALSE

exclude_match(filename, pattern) == match_file(filename, "contain", pattern)

\* the test of get_matching_files's loop on one directory entry
Selected(fs, path, item, match_type, pattern, args) ==
    LET full_path == PathJoin(path, item)
    IN  /\ ~(args.file_only /\ ~IsFile(fs, full_path))
        /\ ~(args.dir_only /\ ~IsDir(fs, full_path))
        /\ ~(\E ex \in args.exclude : exclude_match(item, ex))
        /\ match_file(item, match_type, pattern)

\* code-point order of the characters the model's names hold
CharOrder == " #$,-.0123456789ABUWX_abcdefghijklmnopqrstuvwxyz{}"
Ord(c) == FindFrom(CharOrder, c, 1)

RECURSIVE StrLess(_, _)
\* s < t for Python strings
StrLess(s, t) ==
    IF t = "" THEN FALSE
    ELSE IF s = "" THEN TRUE
    ELSE IF CharAt(s, 1) = CharAt(t, 1) THEN StrLess(From(s, 2), From(t, 2))
    ELSE Ord(CharAt(s, 1)) < Ord(CharAt(t, 1))

IsPermutation(seq, S) ==
    /\ Len(seq) = Cardinality(S)
    /\ {seq[i] : i \in 1..Len(seq)} = S

\* the orders os.listdir may give the names of S in
Listings(S) == {seq \in [1..Cardinality(S) -> S] : IsPermutation(seq, S)}

IsSorted(seq) == \A i \in 1..(Len(seq) - 1) : StrLess(seq[i], seq[i + 1])

\* os.listdir(path): the names in path, in an order the platform chooses
ListDir(fs, path) == Listings({Basename(q) : q \in Children(fs, path)})

RECURSIVE Filter(_, _, _, _, _, _)
Filter(listing, fs, path, match_type, pattern, args) ==
    IF listing = <<>> THEN <<>>
    ELSE (IF Selected(fs, path, Head(listing), match_type, pattern, args)
          THEN <<Head(listing)>> ELSE <<>>)
         \o Filter(Tail(listing), fs, path, match_type, pattern, args)

\* get_matching_files(path, match_type, pattern, args) on the listing os.listdir gave:
\* the set of results (one per listing; one in all under sort = "name")
get_matching_files(fs, path, match_type, pattern, args) ==
    LET all == {Filter(l, fs, path, match_type, pattern, args) : l \in ListDir(fs, path)}
    IN  IF args.sort = "name" THEN {r \in all : IsSorted(r)} ELSE all

(***************************************************************************)
(* Transformation pipeline and placeholder expander                        *)
(***************************************************************************)

\* delete_pattern(filename, pattern): <<name, capture>>, for a literal pattern
delete_pattern(filename, pattern) ==
    IF pattern = "" THEN <<filename, "">>
    ELSE <<ReplaceFrom(filename, pattern, ""),
           Repeat(pattern, CountOf(filename, pattern))>>

\* replace_pattern(filename, old, new): <<name, capture>>
replace_pattern(filename, old, new) ==
    <<StrReplace(filename, old, new),
      IF old = "" THEN "" ELSE Repeat(old, CountOf(filename, old))>>

Lowercase == "abcdefghijklmnopqrstuvwxyz"
Uppercase == "ABCDEFGHIJKLMNOPQRSTUVWXYZ"
DigitChars == "0123456789"

\* get_random_char_set(args): the second definition is the one in force
get_random_char_set(args) ==
    IF args.random_lowercase THEN Lowercase \o DigitChars
    ELSE IF args.random_uppercase THEN Uppercase \o DigitChars
    ELSE Lowercase \o Uppercase \o DigitChars

RECURSIVE generate_random_string(_, _, _)
\* generate_random_string(length, char_set): random.choice draws rnd[1], rnd[2], ...
generate_random_string(length, char_set, rnd) ==
    IF length <= 0 \/ rnd = <<>> THEN ""
    ELSE CharAt(char_set, (Head(rnd) % Len(char_set)) + 1)
         \o generate_random_string(length - 1, char_set, Tail(rnd))

\* get_date_string(date_format) at the clock reading now = [ms, year];
\* of strftime's directives the model's formats hold %Y alone
get_date_string(date_format, now) ==
    IF date_format = "ms" THEN now.ms ELSE StrReplace(date_format, "%Y", now.year)

RECURSIVE ParseNat(_, _)
\* int(digits)
ParseNat(t, acc) ==
    IF t = "" THEN acc
    ELSE ParseNat(From(t, 2), 10 * acc + (FindFrom(DigitChars, CharAt(t, 1), 1) - 1))

RECURSIVE SubDate(_, _, _)
\* re.sub(r'\${date(:([^}]+))?}', ...)
SubDate(s, args, now) ==
    LET k == FindFrom(s, "${date", 1)
        rest == From(s, k + 6)
        close == FindFrom(rest, "}", 2)
    IN  IF k = 0 THEN s
        ELSE IF StartsWith(rest, "}")
        THEN Upto(s, k - 1) \o get_date_string(args.date_format, now)
             \o SubDate(From(rest, 2), args, now)
        ELSE IF StartsWith(rest, ":") /\ close > 2
        THEN Upto(s, k - 1) \o get_date_string(SubSeq(rest, 2, close - 1), now)
             \o SubDate(From(rest, close + 1), args, now)
        ELSE Upto(s, k) \o SubDate(From(s, k + 1), args, now)

RECURSIVE SubRandom(_, _, _)
\* re.sub(r'\${random(:(\d+))?}', ...)
SubRandom(s, args, rnd) ==
    LET k == FindFrom(s, "${random", 1)
        rest == From(s, k + 8)
        close == FindFrom(rest, "}", 2)
        digits == SubSeq(rest, 2, close - 1)
        n == ParseNat(digits, 0)
    IN  IF k = 0 THEN s
        ELSE IF StartsWith(rest, "}")
        THEN Upto(s, k - 1)
             \o generate_random_string(args.random, get_random_char_set(args), rnd)
             \o SubRandom(From(rest, 2), args, SubSeq(rnd, args.random + 1, Len(rnd)))
        ELSE IF /\ StartsWith(rest, ":") /\ close > 2
                /\ \A i \in 1..Len(digits) : IsDigit(CharAt(digits, i))
        THEN Upto(s, k - 1)
             \o generate_random_string(n, get_random_char_set(args), rnd)
             \o SubRandom(From(rest, close + 1), args, SubSeq(rnd, n + 1, Len(rnd)))
        ELSE Upto(s, k) \o SubRandom(From(s, k + 1), args, rnd)

\* the numbering step of process_pattern
SubNumber(pattern, args, index) ==
    IF Contains(pattern, "#")
    THEN LET actual_number == args.num_start + (index - 1) * args.num_step
             num_str == ZFill(IntStr(actual_number), CountOf(pattern, "#"))
         IN  StrReplace(pattern, Repeat("#", CountOf(pattern, "#")), num_str)
    ELSE pattern

RECURSIVE SubCaptures(_, _, _)
\* for i, var in enumerate(temp_vars): pattern = pattern.replace(f'${i}', var);
\* the f-string f'${i}' is "$" followed by str(i)
SubCaptures(pattern, temp_vars, i) ==
    IF i >= Len(temp_vars) THEN pattern
    ELSE SubCaptures(StrReplace(pattern, "$" \o IntStr(i), temp_vars[i + 1]),
                     temp_vars, i + 1)

\* process_pattern(pattern, args, index, temp_vars, root); env = [user, now, rnd]
\* holds what getpass.getuser, datetime.now and random.choice give
process_pattern(pattern, args, index, temp_vars, root, env) ==
    LET p1 == StrReplace(pattern, "$W", Basename(root))
        p2 == StrReplace(p1, "$U", env.user)
        p3 == SubDate(p2, args, env.now)
        p4 == SubRandom(p3, args, env.rnd)
        p5 == SubNumber(p4, args, index)
    IN  SubCaptures(p5, temp_vars, 0)

\* append_pattern(filename, pattern, args, index, temp_vars, root)
append_pattern(filename, pattern, args, index, temp_vars, root, env) ==
    LET parts == SplitExt(filename)
    IN  parts[1] \o process_pattern(pattern, args, index, temp_vars, root, env) \o parts[2]

\* prepend_pattern(filename, pattern, args, index, temp_vars, root)
prepend_pattern(filename, pattern, args, index, temp_vars, root, env) ==
    process_pattern(pattern, args, index, temp_vars, root, env) \o filename

(***************************************************************************)
(* Attribute operation                                                     *)
(***************************************************************************)

\* Python's None, and what is falsy like it ('' for a string option)
None == ""

\* mode | ~bits: every bit but those of bits comes on
OrComplement(mode, bits) == mode \cup (AllBits \ bits)

\* modify_attributes, lines 407-429, what it does outside preview: [ok, fs];
\* ok = FALSE is the OSError it raises
ChangeAttributes(fs, filepath, attrs) ==
    IF ~Exists(fs, filepath) THEN [ok |-> FALSE, fs |-> fs]
    ELSE
      LET neg == StartsWith(attrs, "-")
          m0 == fs[filepath].mode
          m1 == IF Contains(attrs, "r")
                THEN (IF neg THEN OrComplement(m0, Bits444) ELSE m0 \cup Bits444) ELSE m0
          m2 == IF Contains(attrs, "w")
                THEN (IF neg THEN OrComplement(m1, Bits222) ELSE m1 \cup Bits222) ELSE m1
          m3 == IF Contains(attrs, "x")
                THEN (IF neg THEN OrComplement(m2, Bits111) ELSE m2 \cup Bits111) ELSE m2
          ch == OsChmod(fs, filepath, m3)
          dotted == PathJoin(Dirname(filepath), "." \o Basename(filepath))
      IN  IF ~ch.ok THEN ch
          ELSE IF ~Contains(attrs, "h") THEN ch
          ELSE IF OsName = "nt" THEN [ok |-> TRUE, fs |-> [ch.fs EXCEPT ![filepath].hidden = TRUE]]
          ELSE OsRename(ch.fs, filepath, dotted)

\* modify_attributes without its test of preview and dry_run
modify_attributes_unguarded(fs, filepath, attrs, args) ==
    ChangeAttributes(fs, filepath, attrs)

\* modify_attributes(filepath, attrs, args): [ok, fs]
modify_attributes(fs, filepath, attrs, args) ==
    IF args.preview \/ args.dry_run THEN [ok |-> TRUE, fs |-> fs]
    ELSE ChangeAttributes(fs, filepath, attrs)

RECURSIVE ApplyOperations(_, _, _, _, _, _, _)
\* the loop over rename_operations of batch_rename, for one item;
\* st = [new_name, temp_vars, fs, raised]
ApplyOperations(ops, st, old_name, a, index, scope, e) ==
    IF ops = <<>> \/ st.raised THEN st
    ELSE
      LET op == Head(ops)[1]
          value == Head(ops)[2]
          del == delete_pattern(st.new_name, value)
          rep == replace_pattern(st.new_name, value[1], value[2])
          att == modify_attributes(st.fs, old_name, value, a)
          next ==
            CASE op = "delete" ->
                   IF RegexCompiles(value)
                   THEN [st EXCEPT !.new_name = del[1], !.temp_vars = Append(@, del[2])]
                   ELSE [st EXCEPT !.raised = TRUE]
              [] op = "replace" ->
                   [st EXCEPT !.new_name = rep[1], !.temp_vars = Append(@, rep[2])]
              [] op = "append" ->
                   [st EXCEPT !.new_name =
                       append_pattern(@, value, a, index, st.temp_vars, scope, e)]
              [] op = "prepend" ->
                   [st EXCEPT !.new_name =
                       prepend_pattern(@, value, a, index, st.temp_vars, scope, e)]
              [] op = "attr" -> [st EXCEPT !.fs = att.fs, !.raised = ~att.ok]
              [] OTHER -> st
      IN  ApplyOperations(Tail(ops), next, old_name, a, index, scope, e)

\* main: rename_operations, in the fixed order delete, replace, append, prepend, attr
MainOperations(a) ==
    (IF a.delete # None THEN << <<"delete", a.delete>> >> ELSE <<>>)
    \o (IF a.replace # <<>> THEN << <<"replace", a.replace>> >> ELSE <<>>)
    \o (IF a.append # None THEN << <<"append", a.append>> >> ELSE <<>>)
    \o (IF a.prepend # None THEN << <<"prepend", a.prepend>> >> ELSE <<>>)
    \o (IF a.attr # None THEN << <<"attr", a.attr>> >> ELSE <<>>)

\* match_pattern.split(':', 1)
MatchType(m) == Upto(m, FindFrom(m, ":", 1) - 1)
MatchArg(m) == From(m, FindFrom(m, ":", 1) + 1)

(***************************************************************************)
(* State                                                                   *)
(***************************************************************************)

VARIABLES
    fs,               \* the filesystem
    args,             \* the argparse namespace
    env,              \* [user, now, rnd, stamp]: user name, clock, random draws
    pc,               \* where the program is
    caller,           \* who called batch_rename: "main" or "archive"
    path,             \* batch_rename's path
    archive_name,     \* batch_rename's archive_name
    log_entries, log_path, sequence_index, renamed_files,
    walk,             \* os.walk: the directories still to visit, next first
    root, items,      \* the directory being processed, its items still to do
    new_name,         \* the name the pipeline gave the item in hand
    logger,           \* the records logged, oldest first
    stdout,           \* the paths main wrote, each NUL-terminated
    ret_log,          \* the log path batch_rename returned
    log_file, lines,  \* rollback: its argument and the lines still to read
    archive,          \* the archive file: [fmt, members, corrupt]
    temp_dir,         \* process_archive's scratch directory
    raising,          \* an exception is propagating out of process_archive
    call, result,     \* a call of a pure function, and what it returned
    initial_fs        \* the filesystem when the program started

vars == <<fs, args, env, pc, caller, path, archive_name, log_entries, log_path,
          sequence_index, renamed_files, walk, root, items, new_name, logger,
          stdout, ret_log, log_file, lines, archive, temp_dir, raising, call,
          result, initial_fs>>

batch_locals == <<log_entries, log_path, sequence_index, renamed_files, walk, root,
                  items, new_name>>
rollback_locals == <<log_file, lines>>
archive_state == <<archive, temp_dir, raising>>
inputs == <<args, env, call, result, initial_fs>>

Log(level, event, subject) == [level |-> level, event |-> event, subject |-> subject]

Simulating == args.preview \/ args.dry_run

(***************************************************************************)
(* batch_rename                                                            *)
(***************************************************************************)

\* batch_rename, lines 198-210: the locals, and the log path when logging is on
BatchStart ==
    /\ pc = "batch_rename"
    /\ log_entries' = <<>>
    /\ log_path' = IF ~args.no_log /\ ~args.preview /\ ~args.dry_run
                   THEN PathJoin(path, Basename(path) \o "_ren_" \o env.stamp \o ".log")
                   ELSE None
    /\ sequence_index' = 1
    /\ renamed_files' = <<>>
    /\ walk' = <<path>>
    /\ root' = None
    /\ items' = <<>>
    /\ new_name' = None
    /\ pc' = "walk"
    /\ UNCHANGED <<fs, caller, path, archive_name, logger, stdout, ret_log,
                   rollback_locals, archive_state, inputs>>

\* the subdirectories os.walk found in top, in the order it will visit them
SubDirs(top) ==
    Listings({Basename(q) : q \in {c \in Children(fs, top) : IsDir(fs, c)}})

PrefixAll(top, names) == [i \in 1..Len(names) |-> PathJoin(top, names[i])]

\* lines 212-216, os.walk exhausted: the loop ends
WalkEnd ==
    /\ pc = "walk"
    /\ walk = <<>>
    /\ pc' = "write_log"
    /\ UNCHANGED <<fs, caller, path, archive_name, batch_locals, logger, stdout,
                   ret_log, rollback_locals, archive_state, inputs>>

\* os.walk reaches a directory that it cannot list (it is gone): nothing is yielded
WalkSkip ==
    /\ pc = "walk"
    /\ walk # <<>>
    /\ ~IsDir(fs, Head(walk))
    /\ walk' = Tail(walk)
    /\ UNCHANGED <<fs, pc, caller, path, archive_name, log_entries, log_path,
                   sequence_index, renamed_files, root, items, new_name, logger,
                   stdout, ret_log, rollback_locals, archive_state, inputs>>

\* lines 212-214: os.walk yields a directory below path and recursion is off
WalkBreak ==
    /\ pc = "walk"
    /\ walk # <<>>
    /\ IsDir(fs, Head(walk))
    /\ ~args.recursive /\ Head(walk) # path
    /\ root' = Head(walk)
    /\ pc' = "write_log"
    /\ UNCHANGED <<fs, caller, path, archive_name, log_entries, log_path,
                   sequence_index, renamed_files, walk, items, new_name, logger,
                   stdout, ret_log, rollback_locals, archive_state, inputs>>

\* lines 212-216: os.walk yields the next directory; its matching items are listed
WalkDir ==
    /\ pc = "walk"
    /\ walk # <<>>
    /\ IsDir(fs, Head(walk))
    /\ args.recursive \/ Head(walk) = path
    /\ root' = Head(walk)
    /\ \E dirs \in SubDirs(Head(walk)) :
          walk' = PrefixAll(Head(walk), dirs) \o Tail(walk)
    /\ \E found \in get_matching_files(fs, Head(walk), MatchType(args.match),
                                       MatchArg(args.match), args) :
          /\ items' = found
          /\ pc' = IF found = <<>> THEN "walk" ELSE "item"
    /\ UNCHANGED <<fs, caller, path, archive_name, log_entries, log_path,
                   sequence_index, renamed_files, new_name, logger, stdout,
                   ret_log, rollback_locals, archive_state, inputs>>

\* an exception leaves batch_rename at once
Unwind_without_finally == "raised"

\* where an exception goes: to the finally clause of process_archive when
\* process_archive is on the stack, and to main's handlers after it
Unwind == IF caller = "archive" THEN "cleanup" ELSE "raised"

\* what the pipeline makes of the item in hand
Piped ==
    ApplyOperations(MainOperations(args),
                    [new_name |-> Head(items), temp_vars |-> <<>>, fs |-> fs,
                     raised |-> FALSE],
                    PathJoin(root, Head(items)), args, sequence_index,
                    IF archive_name # None THEN archive_name ELSE root, env)

\* lines 218-235: the operations run on one item; an operation that raises ends
\* batch_rename
Pipeline ==
    /\ pc = "item"
    /\ fs' = Piped.fs
    /\ new_name' = Piped.new_name
    /\ IF Piped.raised
       THEN /\ pc' = Unwind
            /\ raising' = (caller = "archive")
       ELSE /\ pc' = "rename"
            /\ UNCHANGED raising
    /\ UNCHANGED <<caller, path, archive_name, log_entries, log_path, sequence_index,
                   renamed_files, walk, root, items, logger, stdout, ret_log,
                   rollback_locals, archive, temp_dir, inputs>>

\* the OSError of os.rename is not caught
OnRenameError_reraise == Unwind

\* lines 250-251: the OSError of os.rename is caught and logged, and the loop goes
\* on with the next item, or the next directory after the last
OnRenameError == IF Tail(items) = <<>> THEN "walk" ELSE "item"

\* lines 237-251: the item is renamed, or reported in preview
Rename ==
    LET old_name == PathJoin(root, Head(items))
        new_path == PathJoin(root, new_name)
        done == OsRename(fs, old_name, new_path)
    IN  /\ pc = "rename"
        /\ renamed_files' = Append(renamed_files, new_path)
        /\ sequence_index' = sequence_index + 1
        /\ IF Simulating
           THEN /\ logger' = Append(logger, Log("info", "Would rename", old_name))
                /\ UNCHANGED <<fs, log_entries>>
           ELSE IF done.ok
           THEN /\ fs' = done.fs
                /\ logger' = Append(logger, Log("info", "Renamed", old_name))
                /\ log_entries' = IF ~args.no_log
                                  THEN Append(log_entries, old_name \o "," \o new_path)
                                  ELSE log_entries
           ELSE /\ logger' = Append(logger, Log("error", "Failed to rename", old_name))
                /\ UNCHANGED <<fs, log_entries>>
        /\ items' = Tail(items)
        /\ pc' = IF ~Simulating /\ ~done.ok THEN OnRenameError
                 ELSE IF Tail(items) = <<>> THEN "walk" ELSE "item"
        /\ UNCHANGED <<caller, path, archive_name, log_path, walk, root, new_name,
                       stdout, ret_log, rollback_locals, archive_state, inputs>>

RECURSIVE JoinLines(_)
\* what the loop of log_file.write(f"{entry}\n") writes
JoinLines(entries) ==
    IF entries = <<>> THEN "" ELSE Head(entries) \o "\n" \o JoinLines(Tail(entries))

NewFile(data) ==
    [kind |-> "file", data |-> data, mode |-> {8, 7, 5, 2}, owned |-> TRUE,
     hidden |-> FALSE]
NewDir ==
    [kind |-> "dir", data |-> "", mode |-> {8, 7, 6, 5, 3, 2, 0}, owned |-> TRUE,
     hidden |-> FALSE]

\* open(p, 'w') and the writes: p holds data afterwards
Written(f, p, data) ==
    [q \in DOMAIN f \cup {p} |-> IF q = p THEN NewFile(data) ELSE f[q]]

\* lines 253-260: the ledger is written and batch_rename returns
WriteLog ==
    /\ pc = "write_log"
    /\ IF log_path # None /\ log_entries # <<>>
       THEN /\ fs' = Written(fs, log_path, JoinLines(log_entries))
            /\ logger' = Append(logger, Log("info", "Rename log created", log_path))
       ELSE UNCHANGED <<fs, logger>>
    /\ ret_log' = IF log_entries # <<>> THEN log_path ELSE None
    /\ pc' = IF caller = "archive" THEN "repack" ELSE "returned"
    /\ UNCHANGED <<caller, path, archive_name, batch_locals, stdout, rollback_locals,
                   archive_state, inputs>>

(***************************************************************************)
(* rollback                                                                *)
(***************************************************************************)

\* os.path.exists
PathExists(f, p) ==
    /\ p # ""
    /\ IF EndsWith(p, "/") THEN IsDir(f, NoSlash(p)) ELSE Exists(f, p)

RECURSIVE FileLines(_)
\* for line in f: the text cut after each newline
FileLines(text) ==
    LET k == FindFrom(text, "\n", 1)
    IN  IF text = "" THEN <<>>
        ELSE IF k = 0 THEN <<text>>
        ELSE <<Upto(text, k)>> \o FileLines(From(text, k + 1))

\* lines 433-438: a missing log file ends rollback; otherwise it is opened
RollbackOpen ==
    /\ pc = "rollback"
    /\ IF ~PathExists(fs, log_file)
       THEN /\ logger' = Append(logger, Log("error", "Log file not found", log_file))
            /\ pc' = "done"
            /\ UNCHANGED lines
       ELSE IF ~IsFile(fs, log_file)
       THEN /\ pc' = "raised"
            /\ UNCHANGED <<logger, lines>>
       ELSE /\ lines' = FileLines(fs[log_file].data)
            /\ pc' = "rollback_lines"
            /\ UNCHANGED logger
    /\ UNCHANGED <<fs, caller, path, archive_name, batch_locals, stdout, ret_log,
                   log_file, archive_state, inputs>>

\* rollback gives up at the first pair it cannot rename back
AfterFailedPair_return == "done"

\* lines 445-448: a pair that is missing or fails is logged, and the loop goes on
AfterFailedPair == "rollback_lines"

\* lines 439-448: one line of the ledger; a line that does not split in two raises
\* ValueError out of rollback
RollbackLine ==
    LET pair == Split(Strip(Head(lines)), ",")
        old_name == pair[1]
        new == pair[2]
        done == OsRename(fs, new, old_name)
    IN  /\ pc = "rollback_lines"
        /\ lines # <<>>
        /\ IF Len(pair) # 2
           THEN /\ pc' = "raised"
                /\ UNCHANGED <<fs, logger, lines>>
           ELSE /\ lines' = Tail(lines)
                /\ IF PathExists(fs, new)
                   THEN IF done.ok
                        THEN /\ fs' = done.fs
                             /\ logger' = Append(logger, Log("info", "Rolled back", new))
                             /\ UNCHANGED pc
                        ELSE /\ logger' = Append(logger,
                                                 Log("error", "Failed to roll back", new))
                             /\ pc' = AfterFailedPair
                             /\ UNCHANGED fs
                   ELSE /\ logger' = Append(logger,
                                            Log("warning", "not found, skipping", new))
                        /\ pc' = AfterFailedPair
                        /\ UNCHANGED fs
        /\ UNCHANGED <<caller, path, archive_name, batch_locals, stdout, ret_log,
                       log_file, archive_state, inputs>>

\* os.remove(p): [ok, fs]
OsRemove(f, p) ==
    IF IsFile(f, p)
    THEN [ok |-> TRUE, fs |-> [q \in DOMAIN f \ {p} |-> f[q]]]
    ELSE [ok |-> FALSE, fs |-> f]

\* lines 450-455: every line read, the log file is removed
RollbackRemove ==
    LET gone == OsRemove(fs, log_file)
    IN  /\ pc = "rollback_lines"
        /\ lines = <<>>
        /\ fs' = gone.fs
        /\ logger' = Append(logger,
                            IF gone.ok THEN Log("info", "Removed log file", log_file)
                            ELSE Log("error", "Failed to remove log file", log_file))
        /\ pc' = "done"
        /\ UNCHANGED <<caller, path, archive_name, batch_locals, stdout, ret_log,
                       rollback_locals, archive_state, inputs>>

(***************************************************************************)
(* process_archive                                                         *)
(***************************************************************************)

TempDir == "t"

ArchiveFormat(p) ==
    IF EndsWith(p, ".zip") THEN "zip"
    ELSE IF EndsWith(p, ".tar") THEN "tar"
    ELSE IF EndsWith(p, ".gz") THEN "gz"
    ELSE "other"

\* os.path.basename(archive_path)[:-3]
GzMember(p) == Upto(Basename(p), Len(Basename(p)) - 3)

\* the scratch directory with the archive's members in it
Extracted(f, dir, fmt, apath, members) ==
    LET at(m) == PathJoin(dir, IF fmt = "gz" THEN GzMember(apath) ELSE m)
        named == IF fmt = "gz" THEN DOMAIN members ELSE DOMAIN members \ {""}
        new == {dir} \cup {at(m) : m \in named}
    IN  [q \in DOMAIN f \cup new |->
            IF q = dir THEN NewDir
            ELSE IF q \in {at(m) : m \in named}
            THEN LET m == CHOOSE x \in named : at(x) = q
                 IN  IF members[m].kind = "dir" THEN NewDir ELSE NewFile(members[m].data)
            ELSE f[q]]

\* lines 159-177: the scratch directory is made and the archive extracted into it;
\* a corrupt archive raises
Extract ==
    /\ pc = "process_archive"
    /\ temp_dir' = TempDir
    /\ archive_name' = SplitExt(Basename(args.archive))[1]
    /\ IF archive.corrupt
       THEN /\ fs' = Extracted(fs, TempDir, "none", args.archive, <<>>)
            /\ pc' = Unwind
            /\ raising' = TRUE
       ELSE /\ fs' = Extracted(fs, TempDir, ArchiveFormat(args.archive), args.archive,
                               archive.members)
            /\ pc' = "batch_rename"
            /\ raising' = FALSE
    /\ path' = TempDir
    /\ UNCHANGED <<caller, batch_locals, logger, stdout, ret_log, rollback_locals,
                   archive, inputs>>

\* what repacking the scratch directory gives: zip takes the files os.walk finds,
\* tar the directory (under the name '') and everything below it
Packed(f, dir, fmt) ==
    LET rel(q) == From(q, Len(dir) + 2)
        taken == IF fmt = "zip" THEN {q \in Below(f, dir) : f[q].kind = "file"}
                 ELSE Below(f, dir)
        names == {rel(q) : q \in taken} \cup (IF fmt = "tar" THEN {""} ELSE {})
    IN  [m \in names |->
            IF m = "" THEN [kind |-> "dir", data |-> ""]
            ELSE LET q == CHOOSE x \in taken : rel(x) = m
                 IN  [kind |-> f[q].kind, data |-> f[q].data]]

\* lines 179-192: the archive is rebuilt from the scratch directory; the gz branch
\* opens the member under the name Extract gave it
Repack ==
    LET fmt == ArchiveFormat(args.archive)
        member == PathJoin(temp_dir, GzMember(args.archive))
    IN  /\ pc = "repack"
        /\ IF fmt = "gz"
           THEN IF IsFile(fs, member)
                THEN /\ archive' = [archive EXCEPT !.members =
                                      [m \in {""} |-> [kind |-> "file",
                                                       data |-> fs[member].data]]]
                     /\ UNCHANGED raising
                ELSE /\ raising' = TRUE
                     /\ UNCHANGED archive
           ELSE /\ archive' = [archive EXCEPT !.members = Packed(fs, temp_dir, fmt)]
                /\ UNCHANGED raising
        /\ pc' = "cleanup"
        /\ UNCHANGED <<fs, caller, path, archive_name, batch_locals, logger, stdout,
                       ret_log, rollback_locals, temp_dir, inputs>>

\* shutil.rmtree(dir)
RmTree(f, dir) == [q \in DOMAIN f \ ({dir} \cup Below(f, dir)) |-> f[q]]

\* lines 194-195: finally, the scratch directory is removed; an exception then
\* goes on to main
Cleanup ==
    /\ pc = "cleanup"
    /\ fs' = RmTree(fs, temp_dir)
    /\ pc' = IF raising THEN "raised" ELSE "returned"
    /\ UNCHANGED <<caller, path, archive_name, batch_locals, logger, stdout, ret_log,
                   rollback_locals, archive_state, inputs>>

(***************************************************************************)
(* main                                                                    *)
(***************************************************************************)

\* lines 477-507: main goes to rollback, process_archive or batch_rename
Main ==
    /\ pc = "main"
    /\ IF args.rollback # None
       THEN /\ pc' = "rollback"
            /\ log_file' = args.rollback
            /\ UNCHANGED <<caller, path>>
       ELSE IF args.archive # None
       THEN /\ pc' = "process_archive"
            /\ caller' = "archive"
            /\ UNCHANGED <<path, log_file>>
       ELSE /\ pc' = "batch_rename"
            /\ caller' = "main"
            /\ path' = args.paths[1]
            /\ UNCHANGED log_file
    /\ UNCHANGED <<fs, archive_name, batch_locals, logger, stdout, ret_log, lines,
                   archive_state, inputs>>

\* lines 507-521: what batch_rename returned is collected and written out
MainOutput ==
    LET all_renamed_files == IF caller = "archive" THEN <<>> ELSE renamed_files
        main_log == IF caller = "archive" THEN None ELSE ret_log
    IN  /\ pc = "returned"
        /\ logger' =
             IF main_log # None
             THEN Append(logger, Log("info", "To rollback", main_log))
             ELSE IF ~args.no_log /\ ~args.preview /\ ~args.dry_run
             THEN Append(logger, Log("info", "No files were renamed", None))
             ELSE logger
        /\ stdout' = IF ~args.preview /\ ~args.dry_run
                     THEN stdout \o all_renamed_files ELSE stdout
        /\ pc' = "done"
        /\ UNCHANGED <<fs, caller, path, archive_name, batch_locals, ret_log,
                       rollback_locals, archive_state, inputs>>

\* lines 523-533: an exception reaches main, which logs it and exits with 1
MainCatch ==
    /\ pc = "raised"
    /\ logger' = Append(logger, Log("critical", "error", None))
    /\ pc' = "failed"
    /\ UNCHANGED <<fs, caller, path, archive_name, batch_locals, stdout, ret_log,
                   rollback_locals, archive_state, inputs>>

\* the program is run again as bren --rollback <log>, with the log path main announced
RunRollback ==
    /\ pc = "done"
    /\ args.rollback = None
    /\ caller = "main"
    /\ ret_log # None
    /\ args' = [args EXCEPT !.rollback = ret_log]
    /\ pc' = "main"
    /\ UNCHANGED <<fs, env, caller, path, archive_name, batch_locals, logger, stdout,
                   ret_log, rollback_locals, archive_state, call, result, initial_fs>>

(***************************************************************************)
(* Pure calls: the pipeline's functions applied to drawn inputs            *)
(***************************************************************************)

\* replace_pattern(call.filename, call.old, call.new)
CallReplace ==
    /\ pc = "call"
    /\ call.fn = "replace_pattern"
    /\ result' = replace_pattern(call.filename, call.old, call.new)
    /\ pc' = "called"
    /\ UNCHANGED <<fs, args, env, caller, path, archive_name, batch_locals, logger,
                   stdout, ret_log, rollback_locals, archive_state, call, initial_fs>>

\* append_pattern / prepend_pattern on call.filename with the captures call.temp_vars
CallExpand ==
    /\ pc = "call"
    /\ call.fn \in {"append_pattern", "prepend_pattern"}
    /\ result' = IF call.fn = "append_pattern"
                 THEN append_pattern(call.filename, call.pattern, args, call.index,
                                     call.temp_vars, "d", env)
                 ELSE prepend_pattern(call.filename, call.pattern, args, call.index,
                                      call.temp_vars, "d", env)
    /\ pc' = "called"
    /\ UNCHANGED <<fs, args, env, caller, path, archive_name, batch_locals, logger,
                   stdout, ret_log, rollback_locals, archive_state, call, initial_fs>>

\* the operations main builds from args, run on call.filename as batch_rename runs
\* them on one item: <<new_name, temp_vars>>
CallPipeline ==
    LET st == ApplyOperations(MainOperations(args),
                              [new_name |-> call.filename, temp_vars |-> <<>>,
                               fs |-> fs, raised |-> FALSE],
                              PathJoin("d", call.filename), args, call.index, "d", env)
    IN  /\ pc = "call"
        /\ call.fn = "pipeline"
        /\ result' = <<st.new_name, st.temp_vars>>
        /\ pc' = "called"
        /\ UNCHANGED <<fs, args, env, caller, path, archive_name, batch_locals, logger,
                       stdout, ret_log, rollback_locals, archive_state, call,
                       initial_fs>>

(***************************************************************************)
(* Initial states                                                          *)
(***************************************************************************)

\* the options as parse_arguments leaves them when none is given
BaseArgs ==
    [paths |-> <<"d">>, archive |-> None, recursive |-> FALSE, file_only |-> FALSE,
     dir_only |-> FALSE, exclude |-> {}, preview |-> FALSE, log |-> None,
     dry_run |-> FALSE, match |-> None, rollback |-> None, delete |-> None,
     replace |-> <<>>, append |-> None, prepend |-> None, attr |-> None,
     num_start |-> 1, num_step |-> 1, num_format |-> "#", date_format |-> "ms",
     random |-> 8, random_lowercase |-> FALSE, random_uppercase |-> FALSE,
     sort |-> None, no_log |-> FALSE]

\* what the environment gives one run: user, clock, random draws, log timestamp
Env == [user |-> "u", now |-> [ms |-> "17", year |-> "2024"],
        rnd |-> <<3, 30, 7, 1, 0, 35, 12, 9>>, stamp |-> "0815"]

NoCall == [fn |-> "none"]

\* everything but fs, args, pc, archive, call as a run finds it
Fresh ==
    /\ env = Env
    /\ caller = "main"
    /\ path = None
    /\ archive_name = None
    /\ log_entries = <<>>
    /\ log_path = None
    /\ sequence_index = 1
    /\ renamed_files = <<>>
    /\ walk = <<>>
    /\ root = None
    /\ items = <<>>
    /\ new_name = None
    /\ logger = <<>>
    /\ stdout = <<>>
    /\ ret_log = None
    /\ log_file = None
    /\ lines = <<>>
    /\ temp_dir = None
    /\ raising = FALSE
    /\ result = None
    /\ initial_fs = fs

NoArchive == [members |-> <<>>, corrupt |-> FALSE]

\* the most entries the directory d starts with
MaxEntries == 2

\* an entry of the starting directory: a file of the user's, a file of someone
\* else's, or a directory holding the file a
EntryKinds == {"file", "alien", "tree"}

\* the directory d holding the names of the function kinds, each of its kind;
\* a file's content is named after its starting path
Directory(kinds) ==
    LET top == {PathJoin("d", n) : n \in DOMAIN kinds}
        sub == {PathJoin(PathJoin("d", n), "a") : n \in {x \in DOMAIN kinds : kinds[x] = "tree"}}
    IN  [q \in {"d"} \cup top \cup sub |->
            IF q = "d" THEN NewDir
            ELSE IF q \in sub THEN NewFile(q)
            ELSE CASE kinds[Basename(q)] = "file" -> NewFile(q)
                   [] kinds[Basename(q)] = "alien" -> [NewFile(q) EXCEPT !.owned = FALSE]
                   [] OTHER -> NewDir]

Directories(names, kindset, most) ==
    {Directory(k) : k \in UNION {[S -> kindset] : S \in {T \in SUBSET names :
                                                           Cardinality(T) \in 1..most}}}

BatchNames == {"a", "ab", "b"}

\* the actions of a run: delete, replace, append, prepend, attr
BatchActions ==
    {[BaseArgs EXCEPT !.delete = "b"],
     [BaseArgs EXCEPT !.replace = <<"a", "b">>],
     [BaseArgs EXCEPT !.delete = "b", !.append = "_$0"],
     [BaseArgs EXCEPT !.append = "X", !.attr = "w"],
     [BaseArgs EXCEPT !.attr = "h"],
     [BaseArgs EXCEPT !.prepend = "#"],
     [BaseArgs EXCEPT !.delete = "("]}

BatchMatches == {"contain:a", "prefix:"}

\* the other options, one changed at a time
WithFlags(a) ==
    {a,
     [a EXCEPT !.preview = TRUE],
     [a EXCEPT !.dry_run = TRUE],
     [a EXCEPT !.no_log = TRUE],
     [a EXCEPT !.recursive = TRUE],
     [a EXCEPT !.sort = "name"],
     [a EXCEPT !.file_only = TRUE],
     [a EXCEPT !.exclude = {"b"}]}

BatchArgs ==
    UNION {WithFlags([a EXCEPT !.match = m]) : a \in BatchActions, m \in BatchMatches}

\* bren -m ... on the directory d
Init ==
    /\ fs \in Directories(BatchNames, EntryKinds, MaxEntries)
    /\ args \in BatchArgs
    /\ pc = "main"
    /\ archive = NoArchive
    /\ call = NoCall
    /\ Fresh

Next ==
    \/ Main \/ BatchStart \/ WalkEnd \/ WalkSkip \/ WalkBreak \/ WalkDir
    \/ Pipeline \/ Rename \/ WriteLog \/ MainOutput \/ MainCatch
    \/ RunRollback \/ RollbackOpen \/ RollbackLine \/ RollbackRemove

Spec == Init /\ [][Next]_vars

(***************************************************************************)
(* Properties of a batch on a directory (Spec)                             *)
(***************************************************************************)

\* the positions of the log records of one event
Events(e) == {i \in DOMAIN logger : logger[i].event = e}

\* what each path of a filesystem holds: its kind and content
Holds(f) == [q \in DOMAIN f |-> <<f[q].kind, f[q].data>>]

\* bren -m has ended, in whichever way, and no rollback has been run since
BatchOver == args.rollback = None /\ pc \in {"done", "failed"}

\* the rollback run after the batch has returned
RolledBack == args.rollback # None /\ pc = "done"

\* C1: round trip.  After a batch that wrote a ledger and the rollback of that
\* ledger, every path holds what it held before the batch, and the ledger file is
\* gone.
C1_RoundTrip ==
    RolledBack => Holds(fs) = Holds(initial_fs)

\* C2: ledger completeness.  When a batch with logging on, not simulating, has
\* ended, however it ended, the ledger file holds one line for each rename that
\* succeeded.
C2_LedgerComplete ==
    (BatchOver /\ ~args.no_log /\ ~Simulating /\ Events("Renamed") # {})
        => /\ IsFile(fs, log_path)
           /\ Len(FileLines(fs[log_path].data)) = Cardinality(Events("Renamed"))

\* the entries the batch looks at: those of d, and with -R all below it
Candidates ==
    {q \in DOMAIN initial_fs :
        /\ IF args.recursive THEN q \in Below(initial_fs, "d")
           ELSE q \in Children(initial_fs, "d")
        /\ Selected(initial_fs, Dirname(q), Basename(q), MatchType(args.match),
                    MatchArg(args.match), args)}

\* C3: preview and dry-run leave the filesystem as it was: no rename, no mode or
\* hidden-flag change, no ledger; and once batch_rename has returned, every
\* matching item has been numbered, given a new path and reported.
C3_PreviewChangesNothing ==
    Simulating =>
        /\ fs = initial_fs
        /\ log_path = None /\ ret_log = None /\ log_entries = <<>>
        /\ stdout = <<>>
        /\ pc \in {"returned", "done"} =>
              /\ Len(renamed_files) = Cardinality(Candidates)
              /\ sequence_index = 1 + Cardinality(Candidates)
              /\ Cardinality(Events("Would rename")) = Cardinality(Candidates)

\* C3 witness: a preview with an attr operation has gone over two items
C3_Witness ==
    /\ Simulating /\ pc = "done" /\ args.attr # None
    /\ Len(renamed_files) = 2
    /\ \E i \in DOMAIN renamed_files : ~Exists(fs, renamed_files[i])

\* the OS rename of the item in hand is about to fail
RenameFails ==
    /\ pc = "rename" /\ ~Simulating
    /\ RenameErrno(fs, PathJoin(root, Head(items)), PathJoin(root, new_name)) # ""

\* C4 as stated: an item whose rename failed keeps its original path, so while the
\* batch runs and after it every path logged as failed to rename is still there.
C4_FailedItemInPlace ==
    args.rollback = None =>
        \A i \in Events("Failed to rename") : Exists(fs, logger[i].subject)

\* C4, amended: a rename that fails does not end the batch.  The step logs the
\* failure, leaves the filesystem and the ledger entries as they were (the item
\* stays where the rename found it), counts the item in the sequence and goes on
\* to the next item, or to the next directory when the item was the directory's
\* last.
C4_FailureGoesOn ==
    [][RenameFails =>
        /\ logger' = Append(logger, Log("error", "Failed to rename",
                                        PathJoin(root, Head(items))))
        /\ fs' = fs
        /\ log_entries' = log_entries
        /\ sequence_index' = sequence_index + 1
        /\ items' = Tail(items)
        /\ pc' = IF items' = <<>> THEN "walk" ELSE "item"]_vars

\* C4 witness: a rename failed and a later item was renamed in the same batch
C4_Witness ==
    /\ args.rollback = None
    /\ \E i \in Events("Failed to rename"), j \in Events("Renamed") : i < j

\* C8: the output stream holds the new path of each item whose rename succeeded,
\* and nothing else.
C8_OutputOnlySuccesses ==
    (BatchOver /\ pc = "done" /\ ~Simulating)
        => Len(stdout) = Cardinality(Events("Renamed"))

\* the log records of the items the batch has visited: each visit ends in one of
\* them, whose subject is the path the item was visited at
Visits ==
    {i \in DOMAIN logger :
        logger[i].event \in {"Renamed", "Would rename", "Failed to rename"}}

\* C11: traversal coverage.  When a recursive batch has returned, every entry of
\* the tree whose name matches has been visited exactly once, those below a
\* directory renamed earlier in the batch included: the visits are as many as the
\* matching entries, and no path was visited twice.
C11_TraversalCoverage ==
    (args.rollback = None /\ args.recursive /\ pc \in {"returned", "done"})
        => /\ Cardinality(Visits) = Cardinality(Candidates)
           /\ \A i, j \in Visits : logger[i].subject = logger[j].subject => i = j

(***************************************************************************)
(* bren --rollback on a given ledger (SpecRollback)                        *)
(***************************************************************************)

\* the most lines the given ledger holds
MaxLines == 2

RollbackNames == {"a", "b", "a,b"}
RollbackKinds == {"file", "tree"}
RollbackPaths == {PathJoin("d", n) : n \in RollbackNames}

\* the lines batch_rename writes for a pair of these paths
LedgerLines ==
    {pq[1] \o "," \o pq[2] : pq \in {x \in RollbackPaths \X RollbackPaths : x[1] # x[2]}}

Ledgers == UNION {[1..n -> LedgerLines] : n \in 0..MaxLines}

LedgerPath == "d/r.log"

\* bren --rollback d/r.log, the directory d holding some of the names and, unless
\* the log is missing, a ledger
InitRollback ==
    /\ \E dir \in Directories(RollbackNames, RollbackKinds, MaxEntries) \cup
                  {Directory(<<>>)} :
          \/ fs = dir
          \/ \E l \in Ledgers : fs = Written(dir, LedgerPath, JoinLines(l))
    /\ args = [BaseArgs EXCEPT !.rollback = LedgerPath]
    /\ pc = "main"
    /\ archive = NoArchive
    /\ call = NoCall
    /\ Fresh

NextRollback ==
    \/ Main \/ RollbackOpen \/ RollbackLine \/ RollbackRemove \/ MainCatch

SpecRollback == InitRollback /\ [][NextRollback]_vars

\* a ledger line in two fields
WellFormed(line) == Len(Split(Strip(line), ",")) = 2

\* the text of the ledger the run was given
GivenLedger == FileLines(initial_fs[LedgerPath].data)

\* C9 as stated: given an existing ledger file, when rollback has ended the ledger
\* file is deleted.
C9_LedgerAlwaysDiscarded ==
    (Exists(initial_fs, LedgerPath) /\ pc \in {"done", "failed"})
        => ~Exists(fs, LedgerPath)

\* the rollback of each line, in the order of the ledger
RollbackEvents ==
    {"Rolled back", "Failed to roll back", "not found, skipping"}

\* C9, the run as a whole: given an existing ledger file whose every line splits in
\* two at its one comma, rollback raises nothing, answers the lines in order with
\* one log record each, and has deleted the ledger file when it returns, whichever
\* pairs failed.
C9_EveryLine ==
    (/\ Exists(initial_fs, LedgerPath)
     /\ \A i \in DOMAIN GivenLedger : WellFormed(GivenLedger[i]))
    => /\ pc # "failed" /\ pc # "raised"
       /\ pc = "rollback_lines" =>
             /\ Len(logger) + Len(lines) = Len(GivenLedger)
             /\ lines = SubSeq(GivenLedger, Len(logger) + 1, Len(GivenLedger))
       /\ \A i \in DOMAIN logger : i <= Len(GivenLedger) =>
             /\ logger[i].event \in RollbackEvents
             /\ logger[i].subject = Split(Strip(GivenLedger[i]), ",")[2]
       /\ pc = "done" =>
             /\ Len(logger) = Len(GivenLedger) + 1
             /\ ~Exists(fs, LedgerPath)

\* C9, the step on one pair: a new path that exists and can be renamed is renamed
\* back to the original path; otherwise the filesystem is left alone; in both
\* cases rollback goes on with the next line.
C9_PairStep ==
    [][(pc = "rollback_lines" /\ lines # <<>> /\ WellFormed(Head(lines))) =>
        LET pair == Split(Strip(Head(lines)), ",")
        IN  /\ pc' = "rollback_lines"
            /\ lines' = Tail(lines)
            /\ IF PathExists(fs, pair[2]) /\ RenameErrno(fs, pair[2], pair[1]) = ""
               THEN fs' = Renamed(fs, pair[2], pair[1])
               ELSE fs' = fs]_vars

\* C9, amended: given an existing ledger file whose every line holds exactly one
\* comma, rollback processes every line in order; a pair whose new path exists is
\* renamed back to the original path, a pair whose new path is missing or whose
\* rename fails is logged and skipped without stopping the rollback, and when
\* rollback returns the ledger file has been deleted, whichever pairs failed.
C9_RollbackRunsToEnd == []C9_EveryLine /\ C9_PairStep

\* C9 witness: a two-line ledger, one pair failed or was skipped, a later pair was
\* rolled back, and the ledger is gone
C9_Witness ==
    /\ pc = "done" /\ ~Exists(fs, LedgerPath)
    /\ \E i \in Events("Failed to roll back") \cup Events("not found, skipping"),
          j \in Events("Rolled back") : i < j

(***************************************************************************)
(* bren -g on an archive (SpecArchive)                                     *)
(***************************************************************************)

ArchivePaths == {"d/a.zip", "d/a.tar", "d/a.gz"}
MemberNames == {"a", "ab"}
MemberKinds == {"file", "tree"}

\* the archives at path p: a gz holds one stream; a zip or a tar the files and
\* directories of a tree
ArchivesAt(p) ==
    IF ArchiveFormat(p) = "gz"
    THEN {[m \in {""} |-> [kind |-> "file", data |-> "gz"]]}
    ELSE {Packed(t, "d", "tar") :
            t \in Directories(MemberNames, MemberKinds, MaxEntries)}

ArchiveActions ==
    {[BaseArgs EXCEPT !.replace = <<"a", "b">>],
     [BaseArgs EXCEPT !.append = "X", !.attr = "w"],
     [BaseArgs EXCEPT !.prepend = "$W_"],
     [BaseArgs EXCEPT !.delete = "("]}

ArchiveFlags(a) ==
    {a, [a EXCEPT !.recursive = TRUE], [a EXCEPT !.preview = TRUE]}

\* bren -g <archive> -m ...; validate_args has turned logging off and made the
\* archive the path
InitArchive ==
    /\ fs = Directory(<<>>)
    /\ \E p \in ArchivePaths :
          /\ \E a \in ArchiveActions, m \in {"contain:a", "prefix:b"} :
                args \in ArchiveFlags([a EXCEPT !.match = m, !.archive = p,
                                                !.paths = <<p>>, !.no_log = TRUE])
          /\ \E ms \in ArchivesAt(p), c \in BOOLEAN :
                archive = [members |-> ms, corrupt |-> c]
    /\ pc = "main"
    /\ call = NoCall
    /\ Fresh

NextArchive ==
    \/ Main \/ Extract \/ BatchStart \/ WalkEnd \/ WalkSkip \/ WalkBreak \/ WalkDir
    \/ Pipeline \/ Rename \/ WriteLog \/ Repack \/ Cleanup \/ MainOutput \/ MainCatch

SpecArchive == InitArchive /\ [][NextArchive]_vars

\* process_archive has been left, by return or by exception
ArchiveLeft == pc \in {"returned", "raised", "done", "failed"}

\* C5: the scratch directory never leaks.  Once process_archive has been left,
\* whether Extract, batch_rename or Repack raised or not, the scratch directory
\* and everything in it is gone.
C5_ScratchRemoved ==
    ArchiveLeft =>
        /\ temp_dir = TempDir
        /\ ~Exists(fs, TempDir)
        /\ Below(fs, TempDir) = {}

\* C5 witness: an exception was raised after a rename in the scratch directory,
\* and process_archive has been left
C5_Witness ==
    /\ pc = "failed" /\ raising /\ temp_dir = TempDir
    /\ renamed_files # <<>>
    /\ ~Exists(fs, TempDir)

\* C7: a gz archive that extracts is repacked under whatever name its member has
\* after the batch: process_archive completes, and the archive holds the member's
\* content.
C7_GzRepacked ==
    (/\ ArchiveFormat(args.archive) = "gz" /\ ~archive.corrupt
     /\ RegexCompiles(args.delete)        \* Extract and the batch raise nothing
     /\ pc \in {"done", "failed"})
    => /\ pc = "done"
       /\ archive.members[""].data = "gz"

(***************************************************************************)
(* The pipeline's functions on drawn inputs (SpecPure)                     *)
(***************************************************************************)

\* the longest capture list drawn
MaxCaptures == 2

PureNames == {"", "a", "ab", "a.t", "draft_report.txt"}
PureOlds == {"", "a", "draft"}
PureNews == {"", "X", "a"}
PureCaptures == {"", "draft", "$1"}
PureTemplates == {"${0}", "${0}_final", "_${1}${0}", "$0", "X${2}", "${0}#"}

CaptureLists == UNION {[1..n -> PureCaptures] : n \in 0..MaxCaptures}

PureCalls ==
    {[fn |-> "replace_pattern", filename |-> n, old |-> o, new |-> w] :
        n \in PureNames, o \in PureOlds, w \in PureNews}
    \cup
    {[fn |-> f, filename |-> n, pattern |-> t, temp_vars |-> c, index |-> 1] :
        f \in {"append_pattern", "prepend_pattern"}, n \in PureNames,
        t \in PureTemplates, c \in CaptureLists}
    \cup
    {[fn |-> "pipeline", filename |-> n, index |-> 1] : n \in PureNames}

PureActions ==
    {[BaseArgs EXCEPT !.delete = "draft", !.append = "${0}_final"],
     [BaseArgs EXCEPT !.delete = "a", !.replace = <<"t", "u">>, !.prepend = "${1}${0}"],
     [BaseArgs EXCEPT !.replace = <<"", "X">>, !.append = "${0}"]}

InitPure ==
    /\ fs = Directory(<<>>)
    /\ call \in PureCalls
    /\ args \in IF call.fn = "pipeline" THEN PureActions ELSE {BaseArgs}
    /\ pc = "call"
    /\ archive = NoArchive
    /\ Fresh

NextPure == CallReplace \/ CallExpand \/ CallPipeline

SpecPure == InitPure /\ [][NextPure]_vars

RECURSIVE Resolved(_, _, _)
\* a template with each ${i}, i below n, replaced by the i-th of the captures
Resolved(template, captures, n) ==
    IF n = 0 THEN template
    ELSE Resolved(StrReplace(template, "${" \o IntStr(n - 1) \o "}", captures[n]),
                  captures, n - 1)

\* the captures hold no placeholder of their own
PlainCaptures(captures) ==
    \A i \in DOMAIN captures : ~Contains(captures[i], "$")

\* C6: in an append or prepend template each ${i} is replaced by the i-th capture
\* and is left as written when there is no i-th capture.
C6_BackReferences ==
    (/\ pc = "called"
     /\ call.fn \in {"append_pattern", "prepend_pattern"}
     /\ ~Contains(call.pattern, "#") /\ ~Contains(call.pattern, "$0")
     /\ PlainCaptures(call.temp_vars))
    => LET text == Resolved(call.pattern, call.temp_vars, Len(call.temp_vars))
       IN  result = IF call.fn = "append_pattern"
                    THEN SplitExt(call.filename)[1] \o text \o SplitExt(call.filename)[2]
                    ELSE text \o call.filename

\* C6 on the pipeline: ${0} in the append template is the text the delete
\* operation took out of this item.
C6_PipelineBackReference ==
    (/\ pc = "called" /\ call.fn = "pipeline"
     /\ args.delete = "draft" /\ call.filename = "draft_report.txt")
    => result[1] = "_reportdraft_final.txt"

\* C10: replace_pattern(name, "", new) returns the name unchanged and the empty
\* string as its capture.
C10_EmptyOld ==
    (pc = "called" /\ call.fn = "replace_pattern" /\ call.old = "")
        => result = <<call.filename, "">>

====
